---- MODULE Spec2Model ----
(***************************************************************************)
(* A model of the `ps` package: the identifier sanitizer                   *)
(* (util.str_to_identifier), the identifier mapper (util.identifier_mapping*)
(* and util._gather_duplicates) and the command namespace (base.Commands). *)
(*                                                                         *)
(* A Python str is modelled as a sequence of characters.  An ASCII         *)
(* character is the one-character TLA+ string; a non-ASCII character is    *)
(* named by its code point ("U+00E9").  Chars turns an ASCII TLA+ string   *)
(* into that sequence.                                                     *)
(***************************************************************************)
EXTENDS Integers, Sequences, FiniteSets, TLC

VARIABLES
    \* --- sanitizer (str_to_identifier) ---
    s,            \* the argument string
    san_pc,       \* "input" | "called" | "recalled"
    first,        \* outcome of str_to_identifier(s)
    second,       \* outcome of the repeated call
    \* --- mapper (identifier_mapping) ---
    strings,      \* the materialised input list
    str_to_id,    \* which sanitizer was passed: "str_to_identifier" | "len"
    map_pc,       \* "input" | "returned" | "raised"
    str_of_id,    \* the returned dict (insertion-ordered sequence of <<id, name>>)
    duplicates,   \* the collision groups carried by the ValueError
    \* --- namespace (Commands) ---
    source,       \* what the caller passes: "mapping" | "callable" | "iterable"
    ns_pc,        \* "input" | "constructed" | "raised"
    attrs,        \* the instance __dict__ of the Commands object
    heap,         \* the objects: src (the caller's) and own (the namespace's dict)
    factory,      \* the command_runner_factory argument
    raised,       \* the keys listed by the ValueError of construction
    built_from,   \* the normalised mapping at construction time (history)
    snapshot,     \* what the namespace showed right after construction (history)
    mutations,    \* number of mutations of the source after construction
    ret           \* outcome of the last namespace operation

sanVars == <<s, san_pc, first, second>>
mapVars == <<strings, str_to_id, map_pc, str_of_id, duplicates>>
nsVars  == <<source, ns_pc, attrs, heap, factory, raised, built_from, snapshot,
             mutations, ret>>
vars    == <<sanVars, mapVars, nsVars>>

-----------------------------------------------------------------------------
(* Bounds *)

MaxLen == 3          \* length of the strings given to str_to_identifier
MaxNames == 3        \* length of the list given to identifier_mapping
MaxEntries == 2      \* entries of the object a namespace is built from
MaxMutations == 1    \* mutations of that object after construction

-----------------------------------------------------------------------------
(* Characters and the classes Python's re and str use *)

Chars(str) == [i \in 1..Len(str) |-> SubSeq(str, i, i)]

Lower == {"a","b","c","d","e","f","g","h","i","j","k","l","m",
          "n","o","p","q","r","s","t","u","v","w","x","y","z"}
Upper == {"A","B","C","D","E","F","G","H","I","J","K","L","M",
          "N","O","P","Q","R","S","T","U","V","W","X","Y","Z"}
AsciiDigits == {"0","1","2","3","4","5","6","7","8","9"}

\* Non-ASCII characters, one per Unicode category that the code tells apart:
\* U+00E9 (e acute, Ll), U+0663 (ARABIC-INDIC DIGIT THREE, Nd),
\* U+00B2 (SUPERSCRIPT TWO, No).
UnicodeLetters == {"U+00E9"}
UnicodeDecimalDigits == {"U+0663"}
UnicodeOtherNumerics == {"U+00B2"}

\* re '\d' on a str pattern: any Unicode decimal digit (category Nd).
MatchesDigit(c) == c \in AsciiDigits \cup UnicodeDecimalDigits

\* re '\w' on a str pattern: Unicode alphanumerics (str.isalnum) and '_'.
MatchesWord(c) ==
    c \in Lower \cup Upper \cup AsciiDigits \cup {"_"}
          \cup UnicodeLetters \cup UnicodeDecimalDigits \cup UnicodeOtherNumerics

\* re '\W': the complement of '\w'.
MatchesNonWord(c) == ~MatchesWord(c)

\* str.isidentifier: first character XID_Start or '_', the rest XID_Continue.
XIDStart(c) == c \in Lower \cup Upper \cup UnicodeLetters
XIDContinue(c) == XIDStart(c) \/ c \in AsciiDigits \cup UnicodeDecimalDigits \cup {"_"}

isidentifier(str) ==
    /\ Len(str) > 0
    /\ XIDStart(str[1]) \/ str[1] = "_"
    /\ \A i \in 2..Len(str) : XIDContinue(str[i])

-----------------------------------------------------------------------------
(* util.str_to_identifier *)

NoException == "none"
EmptyStringError == "ValueError: string was empty"

_replace_all_non_alphnumerics_with_underscore(string) ==
    [i \in 1..Len(string) |-> IF MatchesNonWord(string[i]) THEN "_" ELSE string[i]]

\* The test of a mistyped pattern: '\w' where '\d' is meant.
first_character_matches_word(string) ==
    IF Len(string) = 0
    THEN [exc |-> EmptyStringError, value |-> FALSE]
    ELSE [exc |-> NoException, value |-> MatchesWord(string[1])]

_first_character_is_a_digit(string) ==
    IF Len(string) = 0
    THEN [exc |-> EmptyStringError, value |-> FALSE]
    ELSE [exc |-> NoException, value |-> MatchesDigit(string[1])]

_prefix_with_underscore_if_starts_with_digit(string) ==
    LET t == _first_character_is_a_digit(string) IN
    IF t.exc # NoException
    THEN [exc |-> t.exc, value |-> <<>>]
    ELSE IF t.value
         THEN [exc |-> NoException, value |-> <<"_">> \o string]
         ELSE [exc |-> NoException, value |-> string]

str_to_identifier(string) ==
    LET identifier == _replace_all_non_alphnumerics_with_underscore(string)
    IN  _prefix_with_underscore_if_starts_with_digit(identifier)

\* Characters the sanitizer is exercised on.
SanChars == {"a", "1", "_", "-", "U+00E9", "U+0663", "U+00B2"}

NoOutcome == [exc |-> "not called", value |-> <<>>]

\* The component is not exercised.
SanIdle ==
    /\ s = <<>>
    /\ san_pc = "idle"
    /\ first = NoOutcome
    /\ second = NoOutcome

SanInit ==
    /\ s = <<>>
    /\ san_pc = "input"
    /\ first = NoOutcome
    /\ second = NoOutcome

\* The caller extends the argument by one character.
SanAppendChar ==
    /\ san_pc = "input"
    /\ Len(s) < MaxLen
    /\ \E c \in SanChars : s' = Append(s, c)
    /\ UNCHANGED <<san_pc, first, second, mapVars, nsVars>>

\* str_to_identifier(s)
SanCall ==
    /\ san_pc = "input"
    /\ first' = str_to_identifier(s)
    /\ san_pc' = "called"
    /\ UNCHANGED <<s, second, mapVars, nsVars>>

\* The call repeated: on the identifier returned, or on s again when the
\* first call raised.
SanCallAgain ==
    /\ san_pc = "called"
    /\ second' = IF first.exc = NoException
                 THEN str_to_identifier(first.value)
                 ELSE str_to_identifier(s)
    /\ san_pc' = "recalled"
    /\ UNCHANGED <<s, first, mapVars, nsVars>>

SanNext == SanAppendChar \/ SanCall \/ SanCallAgain

-----------------------------------------------------------------------------
(* util._gather_duplicates and util.identifier_mapping *)

\* A dict is an insertion-ordered sequence of <<key, value>> pairs.
DictKeys(d) == [i \in 1..Len(d) |-> d[i][1]]
DictHas(d, k) == \E i \in 1..Len(d) : d[i][1] = k
DictGet(d, k) == d[CHOOSE i \in 1..Len(d) : d[i][1] = k][2]

\* d[k] = v: an existing key keeps its position, a new key goes last.
DictSet(d, k, v) ==
    IF DictHas(d, k)
    THEN [i \in 1..Len(d) |-> IF d[i][1] = k THEN <<k, v>> ELSE d[i]]
    ELSE Append(d, <<k, v>>)

\* The str_to_id argument applied to one string: the default
\* str_to_identifier, or len (the grouping key of the doctest).
CallStrToId(f, string) ==
    IF f = "len"
    THEN [exc |-> NoException, value |-> Len(string)]
    ELSE str_to_identifier(string)

\* The first exception raised when f is applied to values[1..n] in order.
RECURSIVE FirstException(_, _, _)
FirstException(f, values, n) ==
    IF n = 0 THEN NoException
    ELSE LET before == FirstException(f, values, n - 1) IN
         IF before # NoException THEN before
         ELSE CallStrToId(f, values[n]).exc

\* d = defaultdict(list); for value in values: d[key(value)].append(value)
RECURSIVE GroupByKey(_, _, _)
GroupByKey(values, value_to_group_key, n) ==
    IF n = 0 THEN <<>>
    ELSE LET d == GroupByKey(values, value_to_group_key, n - 1)
             k == CallStrToId(value_to_group_key, values[n]).value
             group == IF DictHas(d, k) THEN DictGet(d, k) ELSE <<>>
         IN  DictSet(d, k, Append(group, values[n]))

\* A filter that is off by one: only groups of three or more are kept.
gather_duplicates_of_three(values, value_to_group_key) ==
    SelectSeq(GroupByKey(values, value_to_group_key, Len(values)),
              LAMBDA kg : Len(kg[2]) > 2)

_gather_duplicates(values, value_to_group_key) ==
    SelectSeq(GroupByKey(values, value_to_group_key, Len(values)),
              LAMBDA kg : Len(kg[2]) > 1)

\* {str_to_id(string): string for string in strings}
RECURSIVE StrOfId(_, _, _)
StrOfId(values, f, n) ==
    IF n = 0 THEN <<>>
    ELSE DictSet(StrOfId(values, f, n - 1),
                 CallStrToId(f, values[n]).value, values[n])

CollisionError == "ValueError: Some commands mapped to the same identifier"

\* The mapper without its length test: collisions pass silently.
identifier_mapping_unchecked(values, f) ==
    IF FirstException(f, values, Len(values)) # NoException
    THEN [exc |-> FirstException(f, values, Len(values)),
          value |-> <<>>, duplicates |-> <<>>]
    ELSE [exc |-> NoException, value |-> StrOfId(values, f, Len(values)),
          duplicates |-> <<>>]

\* Outcome of identifier_mapping: the exception raised (or none), the dict
\* returned, and the groups the collision error carries.
identifier_mapping(values, f) ==
    IF FirstException(f, values, Len(values)) # NoException
    THEN [exc |-> FirstException(f, values, Len(values)),
          value |-> <<>>, duplicates |-> <<>>]
    ELSE LET d == StrOfId(values, f, Len(values)) IN
         IF Len(d) # Len(values)
         THEN [exc |-> CollisionError, value |-> <<>>,
               duplicates |-> _gather_duplicates(values, f)]
         ELSE [exc |-> NoException, value |-> d, duplicates |-> <<>>]

\* Raw command names the mapper is exercised on (file names: never empty).
MapNames == {Chars("ls"), Chars("a-b"), Chars("a_b"), Chars("a.b"),
             Chars("1x"), Chars("_1x")}

\* The component is not exercised.
MapIdle ==
    /\ strings = <<>>
    /\ str_to_id = "str_to_identifier"
    /\ map_pc = "idle"
    /\ str_of_id = <<>>
    /\ duplicates = <<>>

MapInit ==
    /\ strings = <<>>
    /\ str_to_id \in {"str_to_identifier", "len"}
    /\ map_pc = "input"
    /\ str_of_id = <<>>
    /\ duplicates = <<>>

\* The caller's iterable yields one more name (repeats are possible).
MapAppendName ==
    /\ map_pc = "input"
    /\ Len(strings) < MaxNames
    /\ \E n \in MapNames : strings' = Append(strings, n)
    /\ UNCHANGED <<str_to_id, map_pc, str_of_id, duplicates, sanVars, nsVars>>

\* identifier_mapping(strings, str_to_id)
MapCall ==
    /\ map_pc = "input"
    /\ LET r == identifier_mapping(strings, str_to_id) IN
       /\ map_pc' = IF r.exc = NoException THEN "returned" ELSE "raised"
       /\ str_of_id' = r.value
       /\ duplicates' = r.duplicates
    /\ UNCHANGED <<strings, str_to_id, sanVars, nsVars>>

MapNext == MapAppendName \/ MapCall

-----------------------------------------------------------------------------
(* base._ensure_identifier_keyed_dict and base.Commands *)

InvalidIdentifierError == "ValueError: These were not identifiers"
AttributeError == "AttributeError"
CommandNotFoundError == "KeyError: This command was not found"
TypeError == "TypeError"

\* Values an attribute can hold: [type, arg].
\*   "Command" / "run_command": the invoker a factory builds around arg
\*   "dict": the dict object heap[arg];  "factory": the factory named arg
\*   "method": the bound method arg of the class
NoValue == [type |-> "none", arg |-> ""]

\* command_runner_factory(command): Command(command), or the closure
\* mk_raw_command_func(command) returns.
Command(command) == [type |-> "Command", arg |-> command]
mk_raw_command_func(command) == [type |-> "run_command", arg |-> command]

Factories == {"Command", "mk_raw_command_func"}

CallFactory(f, command) ==
    IF f = "Command" THEN Command(command) ELSE mk_raw_command_func(command)

\* Methods getattr finds on the class when the instance has no such
\* attribute: those of Commands and the mixins of collections.abc.Mapping.
ClassAttrs == {"__init__", "__getitem__", "__iter__", "__len__", "__contains__",
               "keys", "items", "values", "get", "__eq__", "__ne__"}

\* {x: x for x in commands}
RECURSIVE DictFromNames(_, _)
DictFromNames(names, n) ==
    IF n = 0 THEN <<>>
    ELSE DictSet(DictFromNames(names, n - 1), names[n], names[n])

\* list(filter(lambda x: not x.isidentifier(), d))
NonIdentifierKeys(d) ==
    SelectSeq(DictKeys(d), LAMBDA x : ~isidentifier(Chars(x)))

\* The normalisation without dict(commands): the caller's mapping itself is
\* kept.
ensure_without_copy(kind, h) ==
    LET d == IF kind = "iterable" THEN DictFromNames(h.src, Len(h.src)) ELSE h.src
        non_identifier_keys == NonIdentifierKeys(d)
    IN  IF Len(non_identifier_keys) > 0
        THEN [exc |-> InvalidIdentifierError, keys |-> non_identifier_keys,
              ref |-> "", heap |-> h]
        ELSE IF kind = "iterable"
             THEN [exc |-> NoException, keys |-> <<>>, ref |-> "own",
                   heap |-> [h EXCEPT !.own = d]]
             ELSE [exc |-> NoException, keys |-> <<>>, ref |-> "src", heap |-> h]

\* Validation that stops at the first key that is not an identifier.
ensure_fail_fast(kind, h) ==
    LET d == IF kind = "iterable" THEN DictFromNames(h.src, Len(h.src)) ELSE h.src
        non_identifier_keys == NonIdentifierKeys(d)
    IN  IF Len(non_identifier_keys) > 0
        THEN [exc |-> InvalidIdentifierError, keys |-> <<non_identifier_keys[1]>>,
              ref |-> "", heap |-> h]
        ELSE [exc |-> NoException, keys |-> <<>>, ref |-> "own",
              heap |-> [h EXCEPT !.own = d]]

\* _ensure_identifier_keyed_dict(commands), commands being the object
\* heap.src of the given kind: a callable is called and yields the mapping,
\* a mapping is copied by dict(commands), an iterable of names becomes
\* {x: x}.  The new dict is the object heap.own.
_ensure_identifier_keyed_dict(kind, h) ==
    LET d == IF kind = "iterable" THEN DictFromNames(h.src, Len(h.src)) ELSE h.src
        non_identifier_keys == NonIdentifierKeys(d)
    IN  IF Len(non_identifier_keys) > 0
        THEN [exc |-> InvalidIdentifierError, keys |-> non_identifier_keys,
              ref |-> "", heap |-> h]
        ELSE [exc |-> NoException, keys |-> <<>>, ref |-> "own",
              heap |-> [h EXCEPT !.own = d]]

\* setattr(self, name, value) on the instance __dict__
SetAttr(a, name, value) ==
    [x \in DOMAIN a \cup {name} |-> IF x = name THEN value ELSE a[x]]

\* for name, command in self._commands.items(): setattr(self, name, factory(command))
\* (the items view is taken from the dict once, before the first setattr)
RECURSIVE SetInvokers(_, _, _, _)
SetInvokers(a, d, f, n) ==
    IF n = 0 THEN a
    ELSE SetAttr(SetInvokers(a, d, f, n - 1), d[n][1], CallFactory(f, d[n][2]))

NoAttrs == [x \in {} |-> NoValue]

\* Commands.__init__(commands, command_runner_factory): the instance
\* __dict__ and the heap it leaves, or the exception.
Commands__init__(kind, h, f) ==
    LET e == _ensure_identifier_keyed_dict(kind, h) IN
    IF e.exc # NoException
    THEN [exc |-> e.exc, keys |-> e.keys, attrs |-> NoAttrs, heap |-> h]
    ELSE LET a1 == SetAttr(NoAttrs, "_commands", [type |-> "dict", arg |-> e.ref])
             d  == e.heap[e.ref]
             a2 == SetInvokers(a1, d, f, Len(d))
             a3 == SetAttr(a2, "_command_runner_factory",
                           [type |-> "factory", arg |-> f])
         IN  [exc |-> NoException, keys |-> <<>>, attrs |-> a3, heap |-> e.heap]

\* getattr(self, name): the instance __dict__, then the class.
GetAttr(a, name) ==
    IF name \in DOMAIN a THEN [exc |-> NoException, value |-> a[name]]
    ELSE IF name \in ClassAttrs
         THEN [exc |-> NoException, value |-> [type |-> "method", arg |-> name]]
         ELSE [exc |-> AttributeError, value |-> NoValue]

\* Commands.__getitem__(command)
Commands__getitem__(a, command) ==
    LET r == GetAttr(a, command) IN
    IF r.exc = AttributeError
    THEN [exc |-> CommandNotFoundError, value |-> NoValue]
    ELSE r

\* Commands.__len__(): len(self._commands)
Commands__len__(a, h) ==
    IF a["_commands"].type = "dict"
    THEN [exc |-> NoException, value |-> Len(h[a["_commands"].arg])]
    ELSE [exc |-> TypeError, value |-> 0]

\* Commands.__contains__(command): command in self._commands
Commands__contains__(a, h, command) ==
    IF a["_commands"].type = "dict"
    THEN [exc |-> NoException, value |-> DictHas(h[a["_commands"].arg], command)]
    ELSE [exc |-> TypeError, value |-> FALSE]

\* list(Commands.__iter__()): yield from self._commands
Commands__iter__(a, h) ==
    IF a["_commands"].type = "dict"
    THEN [exc |-> NoException, value |-> DictKeys(h[a["_commands"].arg])]
    ELSE [exc |-> TypeError, value |-> <<>>]

\* Identifiers and other keys the caller's object is built from, the raw
\* command names they stand for, and the names looked up.
KeyPool == {"ls", "_commands", "_command_runner_factory", "a-b", "1x"}
RawCommands == {"ls", "g++"}
LookupPool == KeyPool \cup {"keys", "missing"}

NoRet == [op |-> "none", arg |-> "", exc |-> NoException, value |-> NoValue]

\* What the namespace shows: its identifiers in order, and what each name
\* looks up to.
Observe(a, h) ==
    [iter  |-> Commands__iter__(a, h),
     items |-> [k \in LookupPool |-> Commands__getitem__(a, k)]]

NoSnapshot ==
    [iter  |-> [exc |-> "not called", value |-> <<>>],
     items |-> [k \in LookupPool |-> [exc |-> "not called", value |-> NoValue]]]

\* The mapping the constructor's argument normalises to.
Normalised(kind, h) ==
    IF kind = "iterable" THEN DictFromNames(h.src, Len(h.src)) ELSE h.src

\* The component is not exercised.
NsIdle ==
    /\ source = "mapping"
    /\ ns_pc = "idle"
    /\ attrs = NoAttrs
    /\ heap = [src |-> <<>>, own |-> <<>>]
    /\ factory = "none"
    /\ raised = <<>>
    /\ built_from = <<>>
    /\ snapshot = NoSnapshot
    /\ mutations = 0
    /\ ret = NoRet

NsInit ==
    /\ source \in {"mapping", "callable", "iterable"}
    /\ ns_pc = "input"
    /\ attrs = NoAttrs
    /\ heap = [src |-> <<>>, own |-> <<>>]
    /\ factory = "none"
    /\ raised = <<>>
    /\ built_from = <<>>
    /\ snapshot = NoSnapshot
    /\ mutations = 0
    /\ ret = NoRet

\* The caller may change its object before construction, and MaxMutations
\* times after it.
CallerMayMutate ==
    \/ ns_pc = "input"
    \/ ns_pc = "constructed" /\ mutations < MaxMutations

CountMutation ==
    mutations' = IF ns_pc = "constructed" THEN mutations + 1 ELSE mutations

\* The caller's m[k] = v on its mapping, or l.append(k) on its list of names.
SrcSetItem ==
    /\ CallerMayMutate
    /\ \E k \in KeyPool, v \in RawCommands :
         IF source = "iterable"
         THEN /\ Len(heap.src) < MaxEntries
              /\ heap' = [heap EXCEPT !.src = Append(@, k)]
         ELSE /\ DictHas(heap.src, k) \/ Len(heap.src) < MaxEntries
              /\ heap' = [heap EXCEPT !.src = DictSet(@, k, v)]
    /\ CountMutation
    /\ UNCHANGED <<source, ns_pc, attrs, factory, raised, built_from, snapshot,
                   ret, sanVars, mapVars>>

\* The caller's del m[k], or del l[i].
SrcDelItem ==
    /\ CallerMayMutate
    /\ \E i \in 1..Len(heap.src) :
         heap' = [heap EXCEPT !.src = SubSeq(@, 1, i - 1) \o SubSeq(@, i + 1, Len(@))]
    /\ CountMutation
    /\ UNCHANGED <<source, ns_pc, attrs, factory, raised, built_from, snapshot,
                   ret, sanVars, mapVars>>

\* Commands(commands, command_runner_factory)
Construct ==
    /\ ns_pc = "input"
    /\ \E f \in Factories :
         LET r == Commands__init__(source, heap, f) IN
         /\ ns_pc' = IF r.exc = NoException THEN "constructed" ELSE "raised"
         /\ attrs' = r.attrs
         /\ heap' = r.heap
         /\ raised' = r.keys
         /\ factory' = f
         /\ snapshot' = IF r.exc = NoException THEN Observe(r.attrs, r.heap)
                        ELSE NoSnapshot
    /\ built_from' = Normalised(source, heap)
    /\ UNCHANGED <<source, mutations, ret, sanVars, mapVars>>

\* ns[k]
NsGetItem ==
    /\ ns_pc = "constructed"
    /\ \E k \in LookupPool :
         LET r == Commands__getitem__(attrs, k) IN
         ret' = [op |-> "getitem", arg |-> k, exc |-> r.exc, value |-> r.value]
    /\ UNCHANGED <<source, ns_pc, attrs, heap, factory, raised, built_from,
                   snapshot, mutations, sanVars, mapVars>>

\* ns.k
NsGetAttr ==
    /\ ns_pc = "constructed"
    /\ \E k \in LookupPool :
         LET r == GetAttr(attrs, k) IN
         ret' = [op |-> "getattr", arg |-> k, exc |-> r.exc, value |-> r.value]
    /\ UNCHANGED <<source, ns_pc, attrs, heap, factory, raised, built_from,
                   snapshot, mutations, sanVars, mapVars>>

\* len(ns)
NsLen ==
    /\ ns_pc = "constructed"
    /\ LET r == Commands__len__(attrs, heap) IN
       ret' = [op |-> "len", arg |-> "", exc |-> r.exc, value |-> r.value]
    /\ UNCHANGED <<source, ns_pc, attrs, heap, factory, raised, built_from,
                   snapshot, mutations, sanVars, mapVars>>

\* k in ns
NsContains ==
    /\ ns_pc = "constructed"
    /\ \E k \in LookupPool :
         LET r == Commands__contains__(attrs, heap, k) IN
         ret' = [op |-> "contains", arg |-> k, exc |-> r.exc, value |-> r.value]
    /\ UNCHANGED <<source, ns_pc, attrs, heap, factory, raised, built_from,
                   snapshot, mutations, sanVars, mapVars>>

\* list(ns)
NsIter ==
    /\ ns_pc = "constructed"
    /\ LET r == Commands__iter__(attrs, heap) IN
       ret' = [op |-> "iter", arg |-> "", exc |-> r.exc, value |-> r.value]
    /\ UNCHANGED <<source, ns_pc, attrs, heap, factory, raised, built_from,
                   snapshot, mutations, sanVars, mapVars>>

NsNext ==
    \/ SrcSetItem \/ SrcDelItem \/ Construct
    \/ NsGetItem \/ NsGetAttr \/ NsLen \/ NsContains \/ NsIter

-----------------------------------------------------------------------------
(* Specifications: each component on its own, and all of them *)

InitSan == SanInit /\ MapIdle /\ NsIdle
InitMap == SanIdle /\ MapInit /\ NsIdle
InitNs  == SanIdle /\ MapIdle /\ NsInit

SpecSan == InitSan /\ [][SanNext]_vars
SpecMap == InitMap /\ [][MapNext]_vars
SpecNs  == InitNs /\ [][NsNext]_vars

Init == InitSan \/ InitMap \/ InitNs
Next == SanNext \/ MapNext \/ NsNext
Spec == Init /\ [][Next]_vars

-----------------------------------------------------------------------------
(* Properties of the sanitizer (checked under SpecSan) *)

AsciiSafe(c) == c \in Lower \cup Upper \cup AsciiDigits \cup {"_"}

\* s with every character outside [A-Za-z0-9_] replaced by '_', then
\* prefixed with '_' when that result starts with a digit 0-9.
AsciiSanitized(str) ==
    LET replaced == [i \in 1..Len(str) |-> IF AsciiSafe(str[i]) THEN str[i] ELSE "_"]
    IN  IF Len(str) > 0 /\ replaced[1] \in AsciiDigits
        THEN <<"_">> \o replaced ELSE replaced

\* C7: for every non-empty s, str_to_identifier(s) is a valid identifier and
\* equals s with every character outside [A-Za-z0-9_] replaced by '_' and a
\* '_' put in front when that starts with a digit; for the empty string the
\* call fails with the empty-input error.
C7_SanitizedIsAsciiIdentifier ==
    san_pc \in {"called", "recalled"} =>
        IF s = <<>>
        THEN first.exc = EmptyStringError
        ELSE /\ first.exc = NoException
             /\ first.value = AsciiSanitized(s)
             /\ isidentifier(first.value)

\* C8: str_to_identifier is idempotent: for a non-empty s the call on the
\* identifier returned gives that identifier again; for the empty string the
\* call and its repetition both fail with the empty-input error.
C8_Idempotent ==
    san_pc = "recalled" =>
        /\ second = first
        /\ s = <<>> => first.exc = EmptyStringError
        /\ s # <<>> => first.exc = NoException

\* C8 witness: the repeated call was made on an identifier that differs from
\* s by a replaced character and by the '_' put in front.
C8_Witness ==
    /\ san_pc = "recalled"
    /\ first.exc = NoException
    /\ Len(first.value) > Len(s)
    /\ \E i \in 1..Len(s) : MatchesNonWord(s[i])

-----------------------------------------------------------------------------
(* Properties of the mapper (checked under SpecMap) *)

IdOf(n) == CallStrToId(str_to_id, n).value
Positions == 1..Len(strings)

\* The input names with identifier id, in input order.
NamesWithId(id) == SelectSeq(strings, LAMBDA n : IdOf(n) = id)

\* C1: identifier_mapping fails with the collision error exactly when the
\* input holds two distinct names with the same identifier; otherwise it
\* returns a mapping; when it fails no mapping is returned.
C1_FailsExactlyOnDistinctCollision ==
    map_pc \in {"returned", "raised"} =>
        /\ map_pc = "raised" <=>
               \E i, j \in Positions : /\ strings[i] # strings[j]
                                       /\ IdOf(strings[i]) = IdOf(strings[j])
        /\ map_pc = "raised" => str_of_id = <<>>

\* C2: when identifier_mapping succeeds, the keys of the mapping returned
\* are exactly the identifiers of the input names, no key occurs twice,
\* every input name is the value of exactly one entry, every value is an
\* input name, and the value under the identifier of n is n.
C2_TotalFaithfulMapping ==
    map_pc = "returned" =>
        /\ {str_of_id[j][1] : j \in 1..Len(str_of_id)} = {IdOf(strings[i]) : i \in Positions}
        /\ \A j, k \in 1..Len(str_of_id) : str_of_id[j][1] = str_of_id[k][1] => j = k
        /\ \A i \in Positions :
               Cardinality({j \in 1..Len(str_of_id) : str_of_id[j][2] = strings[i]}) = 1
        /\ \A j \in 1..Len(str_of_id) : \E i \in Positions : str_of_id[j][2] = strings[i]
        /\ \A i \in Positions :
               /\ DictHas(str_of_id, IdOf(strings[i]))
               /\ DictGet(str_of_id, IdOf(strings[i])) = strings[i]

\* C2 witness: a mapping of two or more names was returned by the default
\* sanitizer, one of them under an identifier that differs from the name.
C2_Witness ==
    /\ map_pc = "returned"
    /\ str_to_id = "str_to_identifier"
    /\ Len(str_of_id) >= 2
    /\ \E j \in 1..Len(str_of_id) : str_of_id[j][1] # str_of_id[j][2]

\* C10: when identifier_mapping fails, the groups reported hold, for every
\* identifier that two or more input names map to, all those names in input
\* order, and hold no identifier that a single input name maps to (input
\* names counted as elements of the input list).
C10_CollisionGroups ==
    map_pc = "raised" =>
        /\ \A i \in Positions :
               LET id == IdOf(strings[i]) IN
               IF Len(NamesWithId(id)) >= 2
               THEN /\ DictHas(duplicates, id)
                    /\ DictGet(duplicates, id) = NamesWithId(id)
               ELSE ~DictHas(duplicates, id)
        /\ \A j \in 1..Len(duplicates) : \E i \in Positions : duplicates[j][1] = IdOf(strings[i])
        /\ \A j, k \in 1..Len(duplicates) : duplicates[j][1] = duplicates[k][1] => j = k

\* C10 witness: the call failed on three names, two of which share an
\* identifier while the third has one of its own.
C10_Witness ==
    /\ map_pc = "raised"
    /\ Len(strings) = 3
    /\ Len(duplicates) = 1
    /\ Len(duplicates[1][2]) = 2

-----------------------------------------------------------------------------
(* Properties of the namespace (checked under SpecNs) *)

BuiltKeys == {built_from[i][1] : i \in 1..Len(built_from)}

\* C3: for every key k of the mapping m the namespace was built from, with
\* factory f, both ns[k] and ns.k return the invoker f(m[k]).
C3_EveryKeyGivesItsInvoker ==
    (ns_pc = "constructed" /\ ret.op \in {"getitem", "getattr"} /\ ret.arg \in BuiltKeys) =>
        /\ ret.exc = NoException
        /\ ret.value = CallFactory(factory, DictGet(built_from, ret.arg))

\* C4: ns[k] succeeds if and only if k is a key of the mapping the namespace
\* was built from; for any other k it fails with the command-not-found error.
C4_LookupSucceedsIffKey ==
    (ns_pc = "constructed" /\ ret.op = "getitem") =>
        /\ ret.exc = NoException <=> ret.arg \in BuiltKeys
        /\ ret.arg \notin BuiltKeys => ret.exc = CommandNotFoundError

\* C5: len(ns) is the number of entries of m, k in ns is true exactly for
\* the keys of m, and iterating ns yields the keys of m once each in m's
\* insertion order.
C5_LenContainsIter ==
    ns_pc = "constructed" =>
        /\ ret.op = "len" => (ret.exc = NoException /\ ret.value = Len(built_from))
        /\ ret.op = "contains" =>
               (ret.exc = NoException /\ ret.value = (ret.arg \in BuiltKeys))
        /\ ret.op = "iter" =>
               (ret.exc = NoException /\ ret.value = DictKeys(built_from))

\* C6: construction succeeds only if every key of the normalised mapping is
\* a valid identifier; if some are not, it fails with the invalid-identifier
\* error listing every such key (each once), and no namespace is produced.
C6_ConstructionValidatesEveryKey ==
    LET bad == {k \in BuiltKeys : ~isidentifier(Chars(k))} IN
    /\ ns_pc = "constructed" => bad = {}
    /\ (ns_pc \in {"constructed", "raised"} /\ bad # {}) =>
           /\ ns_pc = "raised"
           /\ {raised[i] : i \in 1..Len(raised)} = bad
           /\ Len(raised) = Cardinality(bad)
           /\ attrs = NoAttrs
    /\ ns_pc = "raised" => bad # {}

\* C6 witness: construction failed on a mapping with two keys that are not
\* identifiers, and both are listed.
C6_Witness ==
    /\ ns_pc = "raised"
    /\ Len(raised) = 2
    /\ Len(built_from) = 2

\* C9: after construction, whatever operations are called on the namespace
\* and however the object it was built from is changed, its identifiers,
\* their order and what each name looks up to are as right after
\* construction.
C9_ImmutableAfterConstruction ==
    ns_pc = "constructed" => Observe(attrs, heap) = snapshot

\* C9 witness: a namespace built from a non-empty mapping, an operation
\* called on it, and the caller's mapping changed since.
C9_Witness ==
    /\ ns_pc = "constructed"
    /\ source = "mapping"
    /\ Len(built_from) > 0
    /\ mutations > 0
    /\ heap.src # built_from
    /\ ret.op = "iter"

====
